---- MODULE Spec2Model ----
(***************************************************************************)
(* Visual export of the Panogram pedigree editor (js/visualExport.js and   *)
(* the bundled capture shim js/html2canvas.js).                            *)
(*                                                                         *)
(* Three specifications share the variables below:                         *)
(*   SpecSummary  extractPhenotypeInfo over a bounded set of pedigrees     *)
(*   SpecBounds   _calculateBounds over a bounded set of drawing surfaces  *)
(*   Spec         the export entry points and their deferred callbacks     *)
(***************************************************************************)
EXTENDS Integers, Sequences, FiniteSets, TLC

VARIABLES
    graph,      \* the pedigree: vertex i of the editor's graph is graph[i+1]
    summary,    \* <<>> or <<the Summary extractPhenotypeInfo returned>>
    surface,    \* the Raphael paper as the export code sees it
    bounds,     \* <<>> or <<the outcome of _calculateBounds>>
    layout,     \* <<>> or <<the geometry an export derived from the Bounds>>
    calls,      \* per export call: its position, closure values and what it did
    attached,   \* the calls whose offscreen container is a child of document.body
    shimLoaded, \* typeof html2canvas !== 'undefined'
    pdfLoaded   \* typeof jsPDF !== 'undefined'

\* ------------------------------------------------------------------------
\* Bounds of the model
\* ------------------------------------------------------------------------

\* graph.getMaxRealVertexId() + 1 is at most this
MaxVertices == 2

\* the paper holds at most this many shapes
MaxShapes == 2

\* ------------------------------------------------------------------------
\* Small helpers
\* ------------------------------------------------------------------------

Min(a, b) == IF a < b THEN a ELSE b

Max(a, b) == IF a > b THEN a ELSE b

SeqsUpTo(S, n) == UNION {[1..k -> S] : k \in 0..n}

Digit == <<"0", "1", "2", "3", "4", "5", "6", "7", "8", "9">>

\* JavaScript's conversion of a non-negative integer to a string
RECURSIVE NumStr(_)
NumStr(n) == IF n < 10 THEN Digit[n + 1] ELSE NumStr(n \div 10) \o Digit[(n % 10) + 1]

\* ------------------------------------------------------------------------
\* The pedigree as the graph accessor presents it
\* ------------------------------------------------------------------------

\* an absent property and the empty string are both falsy in the code
NoValue == ""

CarrierStatusValues == {NoValue, "normal", "carrier", "affected", "presymptomatic", "unknown"}

\* A disorder or HPO term: an object with label and id, or a raw string.
TermLabelled == [label |-> "X", id |-> "3", raw |-> NoValue]
TermIdOnly   == [label |-> NoValue, id |-> "3", raw |-> NoValue]
TermRaw      == [label |-> NoValue, id |-> NoValue, raw |-> "Y"]
TermUnnamed  == [label |-> NoValue, id |-> NoValue, raw |-> NoValue]

DisorderLists == {<<>>, <<TermLabelled>>, <<TermIdOnly>>, <<TermRaw, TermLabelled>>}

HpoLists == {<<>>, <<TermRaw>>, <<TermUnnamed, TermIdOnly>>}

Persons == [kind : {"person"}, carrierStatus : CarrierStatusValues,
            disorders : DisorderLists, hpoTerms : HpoLists]

\* a vertex that is not a person (a relationship or child hub)
NonPerson == [kind |-> "other", carrierStatus |-> NoValue, disorders |-> <<>>, hpoTerms |-> <<>>]

\* a person whose properties cannot be read or whose term lists are malformed
BrokenPerson == [kind |-> "broken", carrierStatus |-> NoValue, disorders |-> <<>>, hpoTerms |-> <<>>]

Vertices == Persons \cup {NonPerson, BrokenPerson}

\* no pedigree to traverse: the name editor is not bound at all, so that
\* reading it raises a ReferenceError
EditorMissing ==
    <<[kind |-> "noEditor", carrierStatus |-> NoValue, disorders |-> <<>>, hpoTerms |-> <<>>]>>

\* no pedigree to traverse: editor, editor.getGraph or editor.getGraph() is
\* falsy, so that the loop over the vertices is skipped
GraphMissing ==
    <<[kind |-> "noGraph", carrierStatus |-> NoValue, disorders |-> <<>>, hpoTerms |-> <<>>]>>

Graphs == SeqsUpTo(Vertices, MaxVertices) \cup {EditorMissing, GraphMissing}

\* ------------------------------------------------------------------------
\* extractPhenotypeInfo and _generatePhenotypeTitle
\* ------------------------------------------------------------------------

ZeroCounts == [normal |-> 0, carrier |-> 0, affected |-> 0, presymptomatic |-> 0]

\* phenotypes is kept as the sequence of its own properties in creation order
PhenotypeCount(phenotypes, name) ==
    LET hits == {i \in 1..Len(phenotypes) : phenotypes[i].name = name}
    IN IF hits = {} THEN 0 ELSE phenotypes[CHOOSE i \in hits : TRUE].count

\* if (!phenotypes[n]) phenotypes[n] = 0; phenotypes[n]++
IncrementPhenotype(phenotypes, name) ==
    IF \E i \in 1..Len(phenotypes) : phenotypes[i].name = name
    THEN [i \in 1..Len(phenotypes) |->
            IF phenotypes[i].name = name
            THEN [phenotypes[i] EXCEPT !.count = @ + 1]
            ELSE phenotypes[i]]
    ELSE Append(phenotypes, [name |-> name, count |-> 1])

\* disorder.label || disorder.id || disorder; NoValue when the result is no string
ResolveName(term) ==
    IF term.label # NoValue THEN term.label
    ELSE IF term.id # NoValue THEN term.id
    ELSE term.raw

\* the forEach over disorders or hpoTerms
RECURSIVE CollectTerms(_, _, _)
CollectTerms(phenotypes, terms, k) ==
    IF k > Len(terms) THEN phenotypes
    ELSE LET name == ResolveName(terms[k])
         IN CollectTerms(IF name # NoValue THEN IncrementPhenotype(phenotypes, name)
                                           ELSE phenotypes,
                         terms, k + 1)

\* the carrier status branch of the loop body
ClassifyCarrierStatus(counts, status) ==
    IF status # NoValue
    THEN IF status = "affected" THEN [counts EXCEPT !.affected = @ + 1]
         ELSE IF status = "carrier" THEN [counts EXCEPT !.carrier = @ + 1]
         ELSE IF status = "presymptomatic" THEN [counts EXCEPT !.presymptomatic = @ + 1]
         ELSE counts
    ELSE [counts EXCEPT !.normal = @ + 1]

\* the for loop over vertex ids; thrown is set when an exception leaves the loop
RECURSIVE TraversePersons(_, _, _)
TraversePersons(g, i, acc) ==
    IF i > Len(g) THEN acc
    ELSE LET v == g[i]
         IN IF v.kind = "other" THEN TraversePersons(g, i + 1, acc)
            ELSE IF v.kind = "noGraph" THEN acc
            ELSE IF v.kind = "noEditor" THEN [acc EXCEPT !.thrown = TRUE]
            ELSE IF v.kind = "broken"
            THEN [acc EXCEPT !.totalIndividuals = @ + 1, !.thrown = TRUE]
            ELSE TraversePersons(g, i + 1,
                    [acc EXCEPT
                        !.totalIndividuals = @ + 1,
                        !.carrierStatusCounts = ClassifyCarrierStatus(@, v.carrierStatus),
                        !.phenotypes = CollectTerms(CollectTerms(@, v.disorders, 1),
                                                    v.hpoTerms, 1)])

\* names that are canonical array indices, which Object.keys lists first
ArrayIndexValue(name) ==
    CASE name = "3" -> 3
      [] OTHER -> -1

IsArrayIndex(name) == ArrayIndexValue(name) >= 0

RECURSIVE AscendingIndexKeys(_)
AscendingIndexKeys(S) ==
    IF S = {} THEN <<>>
    ELSE LET m == CHOOSE k \in S : \A j \in S : ArrayIndexValue(k) <= ArrayIndexValue(j)
         IN <<m>> \o AscendingIndexKeys(S \ {m})

\* Object.keys(phenotypes): integer-like keys ascending, then the others in
\* creation order
ObjectKeys(phenotypes) ==
    LET names == [i \in 1..Len(phenotypes) |-> phenotypes[i].name]
        isStr(n) == ~IsArrayIndex(n)
    IN AscendingIndexKeys({names[i] : i \in {j \in 1..Len(names) : IsArrayIndex(names[j])}})
       \o SelectSeq(names, isStr)

\* the reduce with >= in place of >: the earlier key survives a tie
RECURSIVE ReduceMostCommonKeepEarlierVariant(_, _, _, _)
ReduceMostCommonKeepEarlierVariant(phenotypes, keys, k, a) ==
    IF k > Len(keys) THEN a
    ELSE ReduceMostCommonKeepEarlierVariant(phenotypes, keys, k + 1,
            IF PhenotypeCount(phenotypes, a) >= PhenotypeCount(phenotypes, keys[k])
            THEN a ELSE keys[k])

\* phenotypeNames.reduce(function(a, b) { return phenotypes[a] > phenotypes[b] ? a : b; })
RECURSIVE ReduceMostCommon(_, _, _, _)
ReduceMostCommon(phenotypes, keys, k, a) ==
    IF k > Len(keys) THEN a
    ELSE ReduceMostCommon(phenotypes, keys, k + 1,
            IF PhenotypeCount(phenotypes, a) > PhenotypeCount(phenotypes, keys[k])
            THEN a ELSE keys[k])

MainPhenotype(phenotypes) ==
    LET keys == ObjectKeys(phenotypes)
    IN ReduceMostCommon(phenotypes, keys, 2, keys[1])

\* the title without the singular form
GenerateTitleAlwaysPluralVariant(phenotypes, affectedCount) ==
    IF Len(phenotypes) = 0
    THEN IF affectedCount > 0
         THEN "Pedigree Chart (" \o NumStr(affectedCount) \o " affected)"
         ELSE "Pedigree Chart"
    ELSE MainPhenotype(phenotypes) \o " (" \o NumStr(affectedCount) \o " cases" \o ")"

_generatePhenotypeTitle(phenotypes, affectedCount) ==
    IF Len(ObjectKeys(phenotypes)) = 0
    THEN IF affectedCount > 0
         THEN "Pedigree Chart (" \o NumStr(affectedCount) \o " affected)"
         ELSE "Pedigree Chart"
    ELSE LET caseText == IF affectedCount = 1 THEN "1 case"
                         ELSE NumStr(affectedCount) \o " cases"
         IN MainPhenotype(phenotypes) \o " (" \o caseText \o ")"

ZeroedSummary ==
    [phenotypes |-> <<>>, carrierStatusCounts |-> ZeroCounts, affectedCount |-> 0,
     totalIndividuals |-> 0, title |-> "Pedigree Chart"]

\* the catch handing out what was counted before the exception
ExtractPartialOnThrowVariant(g) ==
    LET acc == TraversePersons(g, 1,
                  [phenotypes |-> <<>>, carrierStatusCounts |-> ZeroCounts,
                   totalIndividuals |-> 0, thrown |-> FALSE])
    IN [phenotypes |-> acc.phenotypes,
        carrierStatusCounts |-> acc.carrierStatusCounts,
        affectedCount |-> acc.carrierStatusCounts.affected,
        totalIndividuals |-> acc.totalIndividuals,
        title |-> _generatePhenotypeTitle(acc.phenotypes,
                                          acc.carrierStatusCounts.affected)]

extractPhenotypeInfo(g) ==
    LET acc == TraversePersons(g, 1,
                  [phenotypes |-> <<>>, carrierStatusCounts |-> ZeroCounts,
                   totalIndividuals |-> 0, thrown |-> FALSE])
    IN IF acc.thrown THEN ZeroedSummary
       ELSE [phenotypes |-> acc.phenotypes,
             carrierStatusCounts |-> acc.carrierStatusCounts,
             affectedCount |-> acc.carrierStatusCounts.affected,
             totalIndividuals |-> acc.totalIndividuals,
             title |-> _generatePhenotypeTitle(acc.phenotypes,
                                               acc.carrierStatusCounts.affected)]

\* ------------------------------------------------------------------------
\* The drawing surface and _calculateBounds
\* ------------------------------------------------------------------------

DefaultWidth == 800

DefaultHeight == 600

\* what a getBBox() call gives: a box, an exception, or no such method
BBox(x, y, w, h) == [kind |-> "box", x |-> x, y |-> y, width |-> w, height |-> h]

BBoxThrows == [kind |-> "throws", x |-> 0, y |-> 0, width |-> 0, height |-> 0]

BBoxMissing == [kind |-> "missing", x |-> 0, y |-> 0, width |-> 0, height |-> 0]

ShapeBoxes == {BBox(x, y, w, h) : x \in {-1, 2}, y \in {0, 1}, w \in {0, 3}, h \in {0, 2}}

ShapeResults == ShapeBoxes \cup {BBoxThrows, BBoxMissing}

CanvasResults ==
    {BBox(-1, 1, 3, 2), BBox(0, 0, 62, 2), BBox(0, 0, 0, 0), BBox(2, 0, 3, 0),
     BBoxThrows, BBoxMissing}

\* paper.width and paper.height; 0 stands for an unset or zero dimension
NominalSizes == {<<0, 0>>, <<7, 5>>, <<7, 0>>}

\* paper: "ok", or "forEachThrows" when enumerating the shapes raises after
\* the listed shapes were visited
UsableSurfaces ==
    {[paper |-> p, canvasBBox |-> c, shapes |-> sh, width |-> n[1], height |-> n[2]] :
        p \in {"ok", "forEachThrows"}, c \in CanvasResults,
        sh \in SeqsUpTo(ShapeResults, MaxShapes), n \in NominalSizes}

\* editor.getPaper() raises: nothing of the surface can be read
NoSurface ==
    [paper |-> "getPaperThrows", canvasBBox |-> BBoxMissing, shapes |-> <<>>,
     width |-> 0, height |-> 0]

\* two shapes apart from each other on a surface without a usable
\* whole-surface box
TwoShapesSurface ==
    [paper |-> "ok", canvasBBox |-> BBoxThrows,
     shapes |-> <<BBox(0, 0, 10, 10), BBox(20, 20, 5, 5)>>, width |-> 0, height |-> 0]

Surfaces == UsableSurfaces \cup {NoSurface, TwoShapesSurface}

Returned(x, y, w, h) == [raised |-> FALSE, x |-> x, y |-> y, width |-> w, height |-> h]

Raised == [raised |-> TRUE, x |-> 0, y |-> 0, width |-> 0, height |-> 0]

\* the accumulation without the test of the extent
RECURSIVE AccumulateShapesAnyExtentVariant(_, _, _)
AccumulateShapesAnyExtentVariant(shapes, k, acc) ==
    IF k > Len(shapes) THEN acc
    ELSE LET bbox == shapes[k]
         IN AccumulateShapesAnyExtentVariant(shapes, k + 1,
              IF bbox.kind = "box"
              THEN [hasElements |-> TRUE,
                    minX |-> IF acc.hasElements THEN Min(acc.minX, bbox.x) ELSE bbox.x,
                    minY |-> IF acc.hasElements THEN Min(acc.minY, bbox.y) ELSE bbox.y,
                    maxX |-> IF acc.hasElements THEN Max(acc.maxX, bbox.x + bbox.width)
                                                ELSE bbox.x + bbox.width,
                    maxY |-> IF acc.hasElements THEN Max(acc.maxY, bbox.y + bbox.height)
                                                ELSE bbox.y + bbox.height]
              ELSE acc)

\* the callback given to paper.forEach, applied to the shapes in order
RECURSIVE AccumulateShapes(_, _, _)
AccumulateShapes(shapes, k, acc) ==
    IF k > Len(shapes) THEN acc
    ELSE LET bbox == shapes[k]
         IN AccumulateShapes(shapes, k + 1,
              IF bbox.kind = "box" /\ bbox.width > 0 /\ bbox.height > 0
              THEN [hasElements |-> TRUE,
                    minX |-> IF acc.hasElements THEN Min(acc.minX, bbox.x) ELSE bbox.x,
                    minY |-> IF acc.hasElements THEN Min(acc.minY, bbox.y) ELSE bbox.y,
                    maxX |-> IF acc.hasElements THEN Max(acc.maxX, bbox.x + bbox.width)
                                                ELSE bbox.x + bbox.width,
                    maxY |-> IF acc.hasElements THEN Max(acc.maxY, bbox.y + bbox.height)
                                                ELSE bbox.y + bbox.height]
              ELSE acc)

\* the final fallback without the || defaults
NominalBoxNoDefaultVariant(s) ==
    Returned(0, 0, s.width, s.height)

\* the final fallback: paper.width || 800, paper.height || 600
NominalBox(s) ==
    Returned(0, 0,
             IF s.width # 0 THEN s.width ELSE DefaultWidth,
             IF s.height # 0 THEN s.height ELSE DefaultHeight)

\* the per-shape tier degrading to the nominal size when the enumeration raises
PerShapeTierNominalOnThrowVariant(s) ==
    IF s.paper = "forEachThrows" THEN NominalBox(s)
    ELSE LET acc == AccumulateShapes(s.shapes, 1,
                      [hasElements |-> FALSE, minX |-> 0, minY |-> 0, maxX |-> 0, maxY |-> 0])
         IN IF acc.hasElements
            THEN Returned(acc.minX, acc.minY, acc.maxX - acc.minX, acc.maxY - acc.minY)
            ELSE NominalBox(s)

\* the per-shape accumulation and what follows it inside the outer try
PerShapeTier(s) ==
    IF s.paper = "forEachThrows" THEN Raised
    ELSE LET acc == AccumulateShapes(s.shapes, 1,
                      [hasElements |-> FALSE, minX |-> 0, minY |-> 0, maxX |-> 0, maxY |-> 0])
         IN IF acc.hasElements
            THEN Returned(acc.minX, acc.minY, acc.maxX - acc.minX, acc.maxY - acc.minY)
            ELSE NominalBox(s)

\* the body of the outer try
CalculateBoundsTry(s) ==
    IF s.paper = "getPaperThrows" THEN Raised
    ELSE LET canvasBBox == s.canvasBBox
         IN IF canvasBBox.kind = "box" /\ canvasBBox.width > 0 /\ canvasBBox.height > 0
            THEN Returned(canvasBBox.x, canvasBBox.y, canvasBBox.width, canvasBBox.height)
            ELSE PerShapeTier(s)

_calculateBounds(s) ==
    LET r == CalculateBoundsTry(s)
    IN IF r.raised THEN Returned(0, 0, DefaultWidth, DefaultHeight) ELSE r

\* ------------------------------------------------------------------------
\* Layout of the SVG export
\* ------------------------------------------------------------------------

SvgMargin == 20

SvgTitleHeight == 50

SvgLegendWidth == 180

SvgLegendMargin == 20

Rect(x, y, w, h) == [x |-> x, y |-> y, width |-> w, height |-> h]

\* the viewport without room for the legend
SvgViewportNoLegendVariant(bbox) ==
    Rect(bbox.x - SvgMargin, bbox.y - SvgMargin - SvgTitleHeight,
         bbox.width + (SvgMargin * 2),
         bbox.height + (SvgMargin * 2) + SvgTitleHeight)

\* x, y, totalWidth and height as written to viewBox, width and height
SvgViewport(bbox) ==
    Rect(bbox.x - SvgMargin, bbox.y - SvgMargin - SvgTitleHeight,
         bbox.width + (SvgMargin * 2) + SvgLegendWidth + SvgLegendMargin,
         bbox.height + (SvgMargin * 2) + SvgTitleHeight)

\* the box around the circle of legend row index (0 to 3): centre
\* (xPos + 10, yPos), radius 8
LegendIcon(view, bbox, index) ==
    LET yPos == view.y + SvgTitleHeight + 50 + (index * 25)
        xPos == view.x + bbox.width + SvgMargin + SvgLegendMargin + 10
    IN Rect(xPos + 10 - 8, yPos - 8, 16, 16)

\* the legend placed at the viewport's x plus the content width, the margin
\* between them left out
SvgLayoutLegendAtEdgeVariant(bbox) ==
    LET view == SvgViewport(bbox)
    IN [format |-> "svg",
        bbox |-> Rect(bbox.x, bbox.y, bbox.width, bbox.height),
        viewport |-> view,
        titleRect |-> Rect(view.x, view.y, view.width, SvgTitleHeight - 10),
        legendRect |-> Rect(view.x + bbox.width + SvgLegendMargin,
                            view.y + SvgTitleHeight + 10,
                            SvgLegendWidth - 10, 140),
        legendIcons |-> [i \in 1..4 |-> LegendIcon(view, bbox, i - 1)]]

SvgLayout(bbox) ==
    LET view == SvgViewport(bbox)
    IN [format |-> "svg",
        bbox |-> Rect(bbox.x, bbox.y, bbox.width, bbox.height),
        viewport |-> view,
        titleRect |-> Rect(view.x, view.y, view.width, SvgTitleHeight - 10),
        legendRect |-> Rect(view.x + bbox.width + SvgMargin + SvgLegendMargin,
                            view.y + SvgTitleHeight + 10,
                            SvgLegendWidth - 10, 140),
        legendIcons |-> [i \in 1..4 |-> LegendIcon(view, bbox, i - 1)]]

\* ------------------------------------------------------------------------
\* The export entry points and their deferred callbacks
\*
\* The page runs one task at a time.  An action is one task: the synchronous
\* run of an entry point or of one event callback, together with the promise
\* reactions it makes runnable, which the event loop runs before any other
\* task.  What the browser decides (an exception, a failed load, a null
\* blob) is an input of the action.
\* ------------------------------------------------------------------------

Calls == {"first", "second"}

\* the caller's fileName argument; NoValue selects the format's default
FileNameArgs == {NoValue, "family"}

RasterFormats == {"png", "jpg"}

DefaultFileName(format) == "pedigree." \o format

MsgFailedExport(format) ==
    CASE format = "svg" -> "Failed to export as SVG"
      [] format = "png" -> "Failed to export as PNG"
      [] format = "jpg" -> "Failed to export as JPG"
      [] format = "pdf" -> "Failed to export as PDF"
      [] OTHER -> "Failed to export as HTML"

MsgPdfMissing == "PDF export requires jsPDF library"

MsgPdfConvert == "Failed to convert to PDF"

MsgBlob == "Failed to create image blob"

MsgTrySvg == "Image export failed. Please try SVG format instead."

\* a call that has not been made; overlapped records that the call was made
\* while a callback of the other call was still pending
IdleCall ==
    [pc |-> "idle", format |-> NoValue, fileName |-> NoValue, title |-> NoValue,
     downloads |-> <<>>, messages |-> <<>>, shimCalls |-> 0, fallbackRuns |-> 0,
     shimPath |-> "none", log |-> <<>>, geometry |-> <<>>, overlapped |-> FALSE]

NoExports ==
    /\ calls = [c \in Calls |-> IdleCall]
    /\ attached = {}
    /\ shimLoaded = TRUE
    /\ pdfLoaded = TRUE

\* A world is what one task reads and writes: the call's own record and the
\* children of document.body.
World(c) == [call |-> calls[c], attached |-> attached]

Alert(w, msg) == [w EXCEPT !.call.messages = Append(@, msg)]

\* link.click() on the blob URL, saveTextAs and pdf.save
TriggerDownload(w) == [w EXCEPT !.call.downloads = Append(@, w.call.fileName)]

Step(w, name) == [w EXCEPT !.call.log = Append(@, name)]

Goto(w, pc) == [w EXCEPT !.call.pc = pc]

\* var phenotypeInfo = VisualExport.extractPhenotypeInfo(): the title every
\* export but the fallback's draws from the summary
ExtractSummary(w) == [w EXCEPT !.call.title = extractPhenotypeInfo(graph).title]

\* --- exportAsSVG and exportAsHTML ---

HtmlMargin == 20

HtmlLayout(bbox) ==
    [format |-> "html",
     bbox |-> Rect(bbox.x, bbox.y, bbox.width, bbox.height),
     viewport |-> Rect(bbox.x - HtmlMargin, bbox.y - HtmlMargin,
                       bbox.width + (HtmlMargin * 2), bbox.height + (HtmlMargin * 2))]

\* the body of exportAsSVG or exportAsHTML; throws: an exception inside the try
ExportAsText(w, format, throws) ==
    IF throws
    THEN Goto(Alert(w, MsgFailedExport(format)), "done")
    ELSE LET bbox == _calculateBounds(surface)
             g == IF format = "svg" THEN SvgLayout(bbox) ELSE HtmlLayout(bbox)
             w1 == ExtractSummary(w)
         IN Goto(TriggerDownload(Step([w1 EXCEPT !.call.geometry = <<g>>], "serialized")),
                 "done")

\* --- _fallbackCanvasMethod ---

RasterMargin == 20

RasterScale == 2

\* the white background painted for every format
FallbackCanvasAlwaysWhiteVariant(bbox, format) ==
    [format |-> format,
     bbox |-> Rect(bbox.x, bbox.y, bbox.width, bbox.height),
     canvasWidth |-> (bbox.width + RasterMargin * 2) * RasterScale,
     canvasHeight |-> (bbox.height + RasterMargin * 2) * RasterScale,
     prefilledWhite |-> TRUE,
     drawn |-> {"drawing"}]

FallbackCanvas(bbox, format) ==
    [format |-> format,
     bbox |-> Rect(bbox.x, bbox.y, bbox.width, bbox.height),
     canvasWidth |-> (bbox.width + RasterMargin * 2) * RasterScale,
     canvasHeight |-> (bbox.height + RasterMargin * 2) * RasterScale,
     prefilledWhite |-> (format = "jpg"),
     drawn |-> {"drawing"}]

\* The synchronous part of _fallbackCanvasMethod.  An exception leaves it to
\* the caller: the entry point's catch when it runs within the entry point
\* (context "entry"), nobody when it runs within a promise reaction.
FallbackCanvasMethod(w, context, throws) ==
    LET w1 == [w EXCEPT !.call.fallbackRuns = @ + 1]
    IN IF throws
       THEN IF context = "entry"
            THEN Goto(Alert(w1, MsgFailedExport(w1.call.format)), "done")
            ELSE Goto(w1, "done")
       ELSE Goto([w1 EXCEPT !.call.geometry =
                       <<FallbackCanvas(_calculateBounds(surface), w1.call.format)>>],
                 "fallbackImage")

\* --- _exportAsRasterImage: the promise reactions ---

\* .catch(function(error) {...}): document.body.removeChild raises when the
\* container is no child of the body any more, and the reaction ends there
CatchReaction(w, c, fallbackThrows) ==
    IF c \in w.attached
    THEN FallbackCanvasMethod([w EXCEPT !.attached = @ \ {c}], "promise", fallbackThrows)
    ELSE Goto(w, "done")

\* .then(function(canvas) {...}) followed, when it raises, by the catch reaction
ThenReaction(w, c, toBlobThrows, fallbackThrows) ==
    LET w1 == [w EXCEPT !.attached = @ \ {c}, !.call.shimPath = "resolved"]
    IN IF toBlobThrows
       THEN CatchReaction([w1 EXCEPT !.call.shimPath = "handlerThrew"], c, fallbackThrows)
       ELSE Goto(w1, "shimBlob")

\* --- _exportAsRasterImage, called by exportAsPNG and exportAsJPG ---

\* setupThrows: an exception while the container is built (before it is
\* appended); shimRejects: the shim's executor raises and rejects
ExportAsRasterImage(w, c, setupThrows, shimRejects, fallbackThrows) ==
    LET w0 == ExtractSummary(w)
    IN IF ~shimLoaded
    THEN FallbackCanvasMethod([w0 EXCEPT !.call.shimPath = "absent"], "entry", fallbackThrows)
    ELSE IF setupThrows
    THEN FallbackCanvasMethod([w0 EXCEPT !.call.shimPath = "setupThrew"], "entry",
                              fallbackThrows)
    ELSE LET w1 == [w0 EXCEPT !.attached = @ \cup {c}, !.call.shimCalls = @ + 1]
         IN IF shimRejects
            THEN CatchReaction([w1 EXCEPT !.call.shimPath = "rejected"], c, fallbackThrows)
            ELSE Goto([w1 EXCEPT !.call.shimPath = "pending"], "shimImage")

\* --- exportAsPDF and _convertSVGToPDF ---

PdfMargin == 40

PdfTitleHeight == 60

\* 0.75 * n, in quarters of a point
Points(n) == 3 * n

\* landscape also for a page as high as it is wide
PdfPageLandscapeWhenSquareVariant(bbox) ==
    LET width == Points(bbox.width + PdfMargin * 2)
        height == Points(bbox.height + PdfMargin * 2 + PdfTitleHeight)
    IN [format |-> "pdf",
        bbox |-> Rect(bbox.x, bbox.y, bbox.width, bbox.height),
        width |-> width, height |-> height,
        orientation |-> IF width >= height THEN "l" ELSE "p"]

PdfPage(bbox) ==
    LET width == Points(bbox.width + PdfMargin * 2)
        height == Points(bbox.height + PdfMargin * 2 + PdfTitleHeight)
    IN [format |-> "pdf",
        bbox |-> Rect(bbox.x, bbox.y, bbox.width, bbox.height),
        width |-> width, height |-> height,
        orientation |-> IF width > height THEN "l" ELSE "p"]

\* the summary extracted before the engine is looked for
ExportAsPDFExtractsFirstVariant(w, syncThrows, serializeThrows) ==
    LET w0 == ExtractSummary(w)
    IN IF ~pdfLoaded
       THEN Goto(Alert(w0, MsgPdfMissing), "done")
       ELSE IF syncThrows
       THEN Goto(Alert(w0, MsgFailedExport("pdf")), "done")
       ELSE LET w1 == Step(Step([w0 EXCEPT
                                    !.call.geometry = <<PdfPage(_calculateBounds(surface))>>],
                                "page"), "title")
            IN IF serializeThrows
               THEN Goto(Alert(w1, MsgPdfConvert), "done")
               ELSE Goto(w1, "pdfImage")

\* syncThrows: an exception inside the try of exportAsPDF; serializeThrows: an
\* exception inside the executor of _convertSVGToPDF, which rejects
ExportAsPDF(w, syncThrows, serializeThrows) ==
    IF ~pdfLoaded
    THEN Goto(Alert(w, MsgPdfMissing), "done")
    ELSE IF syncThrows
    THEN Goto(Alert(ExtractSummary(w), MsgFailedExport("pdf")), "done")
    ELSE LET w1 == Step(Step([ExtractSummary(w) EXCEPT
                                 !.call.geometry = <<PdfPage(_calculateBounds(surface))>>],
                             "page"), "title")
         IN IF serializeThrows
            THEN Goto(Alert(w1, MsgPdfConvert), "done")
            ELSE Goto(w1, "pdfImage")

\* n points, in quarters of a point
QuarterPoints(n) == 4 * n

\* the page with the image pdf.addImage places on it, sized from bbox
PdfEmbedded(page, bbox) ==
    [format |-> "pdf", bbox |-> page.bbox,
     width |-> page.width, height |-> page.height,
     orientation |-> page.orientation,
     imageBBox |-> Rect(bbox.x, bbox.y, bbox.width, bbox.height),
     imageX |-> 0,
     imageY |-> QuarterPoints(PdfTitleHeight),
     imageWidth |-> Points(bbox.width + PdfMargin * 2),
     imageHeight |-> Points(bbox.height + PdfMargin * 2)]

\* img.onload of _convertSVGToPDF, then the reactions of exportAsPDF
PdfImageLoaded(w, embedThrows, saveThrows) ==
    LET w1 == Step(w, "imageLoaded")
    IN IF embedThrows
       THEN Goto(Alert(w1, MsgPdfConvert), "done")
       ELSE LET bbox == _calculateBounds(surface)
                page == w1.call.geometry[1]
                w2 == Step([w1 EXCEPT !.call.geometry = <<PdfEmbedded(page, bbox)>>],
                           "embedded")
            IN IF saveThrows
               THEN Goto(Alert(w2, MsgPdfConvert), "done")
               ELSE Goto(TriggerDownload(Step(w2, "saved")), "done")

\* the image's failure taken for its success: the document is saved
PdfImageFailedSavesVariant(w) ==
    Goto(TriggerDownload(Step(Step(w, "loadFailed"), "saved")), "done")

\* img.onerror of _convertSVGToPDF, then the catch reaction of exportAsPDF
PdfImageFailed(w) == Goto(Alert(Step(w, "loadFailed"), MsgPdfConvert), "done")

\* --- the capture shim's image callbacks ---

\* img.onload of html2canvas: an exception of drawImage leaves the handler
\* before resolve is reached, and nothing settles the promise afterwards
ShimImageOnload(w, c, drawThrows, toBlobThrows, fallbackThrows) ==
    IF drawThrows
    THEN Goto([w EXCEPT !.call.shimPath = "unsettled"], "shimUnsettled")
    ELSE ThenReaction(Step(w, "captured"), c, toBlobThrows, fallbackThrows)

\* img.onerror of html2canvas: the placeholder is drawn and the promise resolves
ShimImageOnerror(w, c, toBlobThrows, fallbackThrows) ==
    ThenReaction(Step(w, "placeholder"), c, toBlobThrows, fallbackThrows)

\* --- the callbacks of the raster paths ---

\* the missing blob reported with the message of the failed image
BlobCallbackSuggestsSvgVariant(w, blobIsNull) ==
    IF blobIsNull
    THEN Goto(Alert(Step(w, "noBlob"), MsgTrySvg), "done")
    ELSE Goto(TriggerDownload(w), "done")

\* the callback given to canvas.toBlob, in either path
BlobCallback(w, blobIsNull) ==
    IF blobIsNull
    THEN Goto(Alert(Step(w, "noBlob"), MsgBlob), "done")
    ELSE Goto(TriggerDownload(w), "done")

\* img.onload of _fallbackCanvasMethod; throws: drawImage or toBlob raises
FallbackImageOnload(w, throws) ==
    IF throws
    THEN Goto(Alert(Step(w, "drawFailed"), MsgTrySvg), "done")
    ELSE Goto(Step(w, "drawn"), "fallbackBlob")

\* img.onerror of _fallbackCanvasMethod
FallbackImageOnerror(w) == Goto(Alert(Step(w, "loadFailed"), MsgTrySvg), "done")

\* ------------------------------------------------------------------------
\* Specifications of the two pure routines
\* ------------------------------------------------------------------------

exportVars == <<calls, attached, shimLoaded, pdfLoaded>>

vars == <<graph, summary, surface, bounds, layout, calls, attached, shimLoaded, pdfLoaded>>

EmptyGraph == <<>>

BlankSurface ==
    [paper |-> "ok", canvasBBox |-> BBox(-1, 1, 3, 2), shapes |-> <<>>,
     width |-> 0, height |-> 0]

\* --- SpecSummary: one call of extractPhenotypeInfo on any pedigree ---

InitSummary ==
    /\ graph \in Graphs
    /\ summary = <<>>
    /\ surface = BlankSurface
    /\ bounds = <<>>
    /\ layout = <<>>
    /\ NoExports

ExtractPhenotypeInfo ==
    /\ summary = <<>>
    /\ summary' = <<extractPhenotypeInfo(graph)>>
    /\ UNCHANGED <<graph, surface, bounds, layout, exportVars>>

NextSummary == ExtractPhenotypeInfo

SpecSummary == InitSummary /\ [][NextSummary]_vars

\* --- SpecBounds: one call of _calculateBounds on any surface, then the
\* --- SVG export's layout of the result

InitBounds ==
    /\ graph = EmptyGraph
    /\ summary = <<>>
    /\ surface \in Surfaces
    /\ bounds = <<>>
    /\ layout = <<>>
    /\ NoExports

CalculateBounds ==
    /\ bounds = <<>>
    /\ bounds' = <<_calculateBounds(surface)>>
    /\ UNCHANGED <<graph, summary, surface, layout, exportVars>>

LayoutSVG ==
    /\ bounds # <<>>
    /\ ~bounds[1].raised
    /\ layout = <<>>
    /\ layout' = <<SvgLayout(bounds[1])>>
    /\ UNCHANGED <<graph, summary, surface, bounds, exportVars>>

\* the canvas _fallbackCanvasMethod sets up for the result
LayoutFallbackCanvas ==
    /\ bounds # <<>>
    /\ ~bounds[1].raised
    /\ layout = <<>>
    /\ \E format \in RasterFormats : layout' = <<FallbackCanvas(bounds[1], format)>>
    /\ UNCHANGED <<graph, summary, surface, bounds, exportVars>>

\* the page exportAsPDF creates for the result, and the image
\* _convertSVGToPDF places on it when the drawing stays as it is
LayoutPDF ==
    /\ bounds # <<>>
    /\ ~bounds[1].raised
    /\ layout = <<>>
    /\ layout' = <<PdfEmbedded(PdfPage(bounds[1]), bounds[1])>>
    /\ UNCHANGED <<graph, summary, surface, bounds, exportVars>>

NextBounds == CalculateBounds \/ LayoutSVG \/ LayoutFallbackCanvas \/ LayoutPDF

SpecBounds == InitBounds /\ [][NextBounds]_vars

\* --- Spec: up to two export calls and their callbacks, interleaved ---

PersonWithDisorder ==
    [kind |-> "person", carrierStatus |-> "affected",
     disorders |-> <<TermLabelled>>, hpoTerms |-> <<>>]

ExportGraphs == {EmptyGraph, <<PersonWithDisorder>>}

ShapesSurface ==
    [paper |-> "ok", canvasBBox |-> BBoxThrows,
     shapes |-> <<BBox(2, 0, 3, 2), BBox(-1, 1, 3, 2)>>, width |-> 7, height |-> 5]

ExportSurfaces == {BlankSurface, ShapesSurface, NoSurface}

\* whether a step that reads the editor's paper raises
PaperThrowChoices == IF surface.paper = "getPaperThrows" THEN {TRUE} ELSE BOOLEAN

Init ==
    /\ graph \in ExportGraphs
    /\ summary = <<>>
    /\ surface \in ExportSurfaces
    /\ bounds = <<>>
    /\ layout = <<>>
    /\ calls = [c \in Calls |-> IdleCall]
    /\ attached = {}
    /\ shimLoaded \in BOOLEAN
    /\ pdfLoaded \in BOOLEAN

\* the entry point is called; "second" names the call made second
CanCall(c) ==
    /\ calls[c].pc = "idle"
    /\ c = "second" => calls["first"].pc # "idle"

Begin(c, format, fileName) ==
    [World(c) EXCEPT
        !.call.format = format,
        !.call.fileName = IF fileName # NoValue THEN fileName ELSE DefaultFileName(format),
        !.call.overlapped = \E d \in Calls \ {c} :
                               calls[d].pc \notin {"idle", "done", "shimUnsettled"}]

Commit(c, w) ==
    /\ calls' = [calls EXCEPT ![c] = w.call]
    /\ attached' = w.attached
    /\ UNCHANGED <<graph, summary, surface, bounds, layout, shimLoaded, pdfLoaded>>

ExportAsSVG(c) ==
    /\ CanCall(c)
    /\ \E fileName \in FileNameArgs, throws \in PaperThrowChoices :
          Commit(c, ExportAsText(Begin(c, "svg", fileName), "svg", throws))

ExportAsHTML(c) ==
    /\ CanCall(c)
    /\ \E fileName \in FileNameArgs, throws \in PaperThrowChoices :
          Commit(c, ExportAsText(Begin(c, "html", fileName), "html", throws))

ExportAsPNG(c) ==
    /\ CanCall(c)
    /\ \E fileName \in FileNameArgs, setupThrows \in PaperThrowChoices,
          shimRejects \in BOOLEAN, fallbackThrows \in PaperThrowChoices :
          Commit(c, ExportAsRasterImage(Begin(c, "png", fileName), c,
                                        setupThrows, shimRejects, fallbackThrows))

ExportAsJPG(c) ==
    /\ CanCall(c)
    /\ \E fileName \in FileNameArgs, setupThrows \in PaperThrowChoices,
          shimRejects \in BOOLEAN, fallbackThrows \in PaperThrowChoices :
          Commit(c, ExportAsRasterImage(Begin(c, "jpg", fileName), c,
                                        setupThrows, shimRejects, fallbackThrows))

ExportAsPDFCall(c) ==
    /\ CanCall(c)
    /\ \E fileName \in FileNameArgs, syncThrows \in PaperThrowChoices,
          serializeThrows \in BOOLEAN :
          Commit(c, ExportAsPDF(Begin(c, "pdf", fileName), syncThrows, serializeThrows))

ShimImageLoad(c) ==
    /\ calls[c].pc = "shimImage"
    /\ \E drawThrows \in BOOLEAN, toBlobThrows \in BOOLEAN, fallbackThrows \in BOOLEAN :
          Commit(c, ShimImageOnload(World(c), c, drawThrows, toBlobThrows, fallbackThrows))

ShimImageError(c) ==
    /\ calls[c].pc = "shimImage"
    /\ \E toBlobThrows \in BOOLEAN, fallbackThrows \in BOOLEAN :
          Commit(c, ShimImageOnerror(World(c), c, toBlobThrows, fallbackThrows))

ShimBlobReady(c) ==
    /\ calls[c].pc = "shimBlob"
    /\ \E blobIsNull \in BOOLEAN : Commit(c, BlobCallback(World(c), blobIsNull))

FallbackImageLoad(c) ==
    /\ calls[c].pc = "fallbackImage"
    /\ \E throws \in BOOLEAN : Commit(c, FallbackImageOnload(World(c), throws))

FallbackImageError(c) ==
    /\ calls[c].pc = "fallbackImage"
    /\ Commit(c, FallbackImageOnerror(World(c)))

FallbackBlobReady(c) ==
    /\ calls[c].pc = "fallbackBlob"
    /\ \E blobIsNull \in BOOLEAN : Commit(c, BlobCallback(World(c), blobIsNull))

PdfImageLoad(c) ==
    /\ calls[c].pc = "pdfImage"
    /\ \E embedThrows \in BOOLEAN, saveThrows \in BOOLEAN :
          Commit(c, PdfImageLoaded(World(c), embedThrows, saveThrows))

PdfImageError(c) ==
    /\ calls[c].pc = "pdfImage"
    /\ Commit(c, PdfImageFailed(World(c)))

\* the user edits the pedigree between two tasks: the drawing on the paper
\* is another one afterwards
EditSurface ==
    /\ surface \in {BlankSurface, ShapesSurface}
    /\ surface' \in {BlankSurface, ShapesSurface} \ {surface}
    /\ UNCHANGED <<graph, summary, bounds, layout, exportVars>>

ExportStep ==
    \E c \in Calls :
        \/ ExportAsSVG(c)
        \/ ExportAsHTML(c)
        \/ ExportAsPNG(c)
        \/ ExportAsJPG(c)
        \/ ExportAsPDFCall(c)
        \/ ShimImageLoad(c)
        \/ ShimImageError(c)
        \/ ShimBlobReady(c)
        \/ FallbackImageLoad(c)
        \/ FallbackImageError(c)
        \/ FallbackBlobReady(c)
        \/ PdfImageLoad(c)
        \/ PdfImageError(c)

Next == ExportStep \/ EditSurface

Spec == Init /\ [][Next]_vars

\* ------------------------------------------------------------------------
\* Reference notions the properties are stated with
\* ------------------------------------------------------------------------

HasBrokenPerson(g) == \E i \in 1..Len(g) : g[i].kind = "broken"

\* the traversal cannot be carried through
TraversalFails(g) == HasBrokenPerson(g) \/ g \in {EditorMissing, GraphMissing}

RECURSIVE NamesOfTerms(_)
NamesOfTerms(terms) ==
    IF terms = <<>> THEN <<>>
    ELSE (IF ResolveName(Head(terms)) # NoValue THEN <<ResolveName(Head(terms))>> ELSE <<>>)
         \o NamesOfTerms(Tail(terms))

\* every term name in the order the traversal meets it
RECURSIVE EncounteredNames(_)
EncounteredNames(g) ==
    IF g = <<>> THEN <<>>
    ELSE (IF Head(g).kind = "person"
          THEN NamesOfTerms(Head(g).disorders) \o NamesOfTerms(Head(g).hpoTerms)
          ELSE <<>>)
         \o EncounteredNames(Tail(g))

Occurrences(names, n) == Cardinality({i \in 1..Len(names) : names[i] = n})

FirstEncounter(names, n) == CHOOSE i \in 1..Len(names) :
    names[i] = n /\ \A j \in 1..(i - 1) : names[j] # n

NameSet(names) == {names[i] : i \in 1..Len(names)}

\* the names whose count is the highest
TiedNames(names) ==
    {n \in NameSet(names) : \A m \in NameSet(names) : Occurrences(names, n) >= Occurrences(names, m)}

CaseSuffix(affectedCount) ==
    " (" \o NumStr(affectedCount) \o (IF affectedCount = 1 THEN " case" ELSE " cases") \o ")"

\* a lists b earlier than itself in the key enumeration of the phenotypes map
ListedBefore(names, a, b) ==
    \/ IsArrayIndex(a) /\ ~IsArrayIndex(b)
    \/ IsArrayIndex(a) /\ IsArrayIndex(b) /\ ArrayIndexValue(a) < ArrayIndexValue(b)
    \/ ~IsArrayIndex(a) /\ ~IsArrayIndex(b) /\ FirstEncounter(names, a) < FirstEncounter(names, b)

SetMin(S) == CHOOSE x \in S : \A y \in S : x <= y

SetMax(S) == CHOOSE x \in S : \A y \in S : x >= y

\* the whole-surface query succeeds with a strictly positive extent
WholeSurfaceAccepted(s) ==
    /\ s.paper # "getPaperThrows"
    /\ s.canvasBBox.kind = "box"
    /\ s.canvasBBox.width > 0
    /\ s.canvasBBox.height > 0

\* the visited shapes whose query succeeds with a strictly positive extent
Contributors(s) ==
    {k \in 1..Len(s.shapes) :
        s.shapes[k].kind = "box" /\ s.shapes[k].width > 0 /\ s.shapes[k].height > 0}

\* the smallest rectangle around the contributing shapes
EnclosingRect(s) ==
    LET C == Contributors(s)
        x0 == SetMin({s.shapes[k].x : k \in C})
        y0 == SetMin({s.shapes[k].y : k \in C})
        x1 == SetMax({s.shapes[k].x + s.shapes[k].width : k \in C})
        y1 == SetMax({s.shapes[k].y + s.shapes[k].height : k \in C})
    IN Rect(x0, y0, x1 - x0, y1 - y0)

RectOf(b) == Rect(b.x, b.y, b.width, b.height)

\* rectangle inner lies within rectangle outer
Inside(inner, outer) ==
    /\ outer.x <= inner.x
    /\ outer.y <= inner.y
    /\ inner.x + inner.width <= outer.x + outer.width
    /\ inner.y + inner.height <= outer.y + outer.height

\* rectangles a and b share an area
Overlap(a, b) ==
    /\ a.x < b.x + b.width
    /\ b.x < a.x + a.width
    /\ a.y < b.y + b.height
    /\ b.y < a.y + a.height

\* _calculateBounds answered from the per-shape accumulation
InPerShapeTier(s) ==
    /\ s.paper = "ok"
    /\ ~WholeSurfaceAccepted(s)
    /\ Contributors(s) # {}

\* ------------------------------------------------------------------------
\* C1..C10
\* ------------------------------------------------------------------------

\* C1: after extractPhenotypeInfo the four carrierStatusCounts buckets sum to
\* totalIndividuals, whatever carrierStatus each person carries.
C1_BucketsSumToTotal ==
    summary # <<>> =>
        LET c == summary[1].carrierStatusCounts
        IN c.normal + c.carrier + c.affected + c.presymptomatic = summary[1].totalIndividuals

\* the call was made and no callback of it is pending: nothing of it will
\* run any more
ExportFinished(c) == calls[c].pc \in {"done", "shimUnsettled"}

\* C2: once a raster export has finished, on whatever path, the offscreen
\* container it attached to the document is attached no more.
C2_ContainerDetachedWhenFinished ==
    \A c \in Calls :
        (calls[c].format \in RasterFormats /\ ExportFinished(c)) => c \notin attached

\* C3: an export call ends with exactly one download and no message, or with
\* a message and no download; never with neither and never with both.
C3_DownloadOrMessage ==
    \A c \in Calls :
        calls[c].pc = "done" =>
            \/ Len(calls[c].downloads) = 1 /\ calls[c].messages = <<>>
            \/ calls[c].downloads = <<>> /\ Len(calls[c].messages) >= 1

\* C4: in a raster export the direct-draw fallback has run exactly once when
\* the capture-shim path failed (shim undefined, exception during setup,
\* promise rejected, exception while handling the captured canvas) and not at
\* all when it succeeded; the shim is invoked at most once.
C4_FallbackExactlyOnShimFailure ==
    \A c \in Calls :
        (calls[c].format \in RasterFormats /\ calls[c].pc = "done") =>
            /\ calls[c].shimPath \in {"absent", "setupThrew", "rejected", "handlerThrew"}
                  => calls[c].fallbackRuns = 1
            /\ calls[c].shimPath = "resolved" => calls[c].fallbackRuns = 0
            /\ calls[c].shimCalls <= 1

C5_TieCase ==
    /\ summary # <<>>
    /\ ~HasBrokenPerson(graph)
    /\ Cardinality(TiedNames(EncounteredNames(graph))) >= 2

\* C5 as stated: among the names tied for the highest count the title uses
\* the one encountered first in person-iteration order.
C5_TieFirstEncountered ==
    C5_TieCase =>
        LET names == EncounteredNames(graph)
            first == CHOOSE n \in TiedNames(names) :
                        \A m \in TiedNames(names) : FirstEncounter(names, n) <= FirstEncounter(names, m)
        IN summary[1].title = first \o CaseSuffix(summary[1].affectedCount)

\* C5 amended: among the names tied for the highest count the title uses the
\* one listed last by the key enumeration of the phenotypes map (integer-like
\* names ascending first, then the other names in first-encounter order).
C5_TieLastListed ==
    C5_TieCase =>
        LET names == EncounteredNames(graph)
            last == CHOOSE n \in TiedNames(names) :
                        \A m \in TiedNames(names) \ {n} : ListedBefore(names, m, n)
        IN summary[1].title = last \o CaseSuffix(summary[1].affectedCount)

C5_Witness ==
    /\ C5_TieCase
    /\ \E n \in TiedNames(EncounteredNames(graph)) : IsArrayIndex(n)
    /\ \E n \in TiedNames(EncounteredNames(graph)) : ~IsArrayIndex(n)

\* C6: the title equals the reference: without phenotype names "Pedigree
\* Chart", with " (<n> affected)" appended when n = affectedCount > 0;
\* otherwise "<name> (<n> case|cases)" for a name of highest count, singular
\* exactly when n = 1.
C6_TitleMatchesReference ==
    summary # <<>> =>
        LET ph == summary[1].phenotypes
            n == summary[1].affectedCount
            title == summary[1].title
        IN IF Len(ph) = 0
           THEN title = IF n = 0 THEN "Pedigree Chart"
                        ELSE "Pedigree Chart (" \o NumStr(n) \o " affected)"
           ELSE \E i \in 1..Len(ph) :
                   /\ \A j \in 1..Len(ph) : ph[i].count >= ph[j].count
                   /\ title = ph[i].name \o " (" \o NumStr(n)
                                \o (IF n = 1 THEN " case" ELSE " cases") \o ")"

C6_Witness ==
    /\ summary # <<>>
    /\ Len(summary[1].phenotypes) >= 2
    /\ summary[1].affectedCount = 1

\* C7: in the per-shape tier the returned rectangle contains the bounding
\* box of every enumerated shape whose bounding-box query succeeds.
C7_EveryShapeInsideBounds ==
    (bounds # <<>> /\ InPerShapeTier(surface)) =>
        \A k \in 1..Len(surface.shapes) :
            surface.shapes[k].kind = "box" =>
                Inside(RectOf(surface.shapes[k]), RectOf(bounds[1]))

\* C8 as stated: the whole-surface box exactly when that query succeeds with
\* a positive extent; otherwise the accumulated rectangle exactly when a shape
\* contributed; otherwise (0,0) with the nominal size, defaulting to 800x600.
C8_ThreeTierOrder ==
    bounds # <<>> =>
        RectOf(bounds[1]) =
            IF WholeSurfaceAccepted(surface) THEN RectOf(surface.canvasBBox)
            ELSE IF Contributors(surface) # {} THEN EnclosingRect(surface)
            ELSE Rect(0, 0,
                      IF surface.width # 0 THEN surface.width ELSE 800,
                      IF surface.height # 0 THEN surface.height ELSE 600)

\* C8 amended: as C8, except that when the paper cannot be obtained or the
\* shape enumeration raises (and the whole-surface box was not accepted) the
\* result is the fixed box (0,0,800,600), whatever shapes had contributed and
\* whatever the nominal size is.
C8_ThreeTierOrderUnlessRaised ==
    bounds # <<>> =>
        RectOf(bounds[1]) =
            IF WholeSurfaceAccepted(surface) THEN RectOf(surface.canvasBBox)
            ELSE IF surface.paper # "ok" THEN Rect(0, 0, 800, 600)
            ELSE IF Contributors(surface) # {} THEN EnclosingRect(surface)
            ELSE Rect(0, 0,
                      IF surface.width # 0 THEN surface.width ELSE 800,
                      IF surface.height # 0 THEN surface.height ELSE 600)

C8_Witness ==
    /\ bounds # <<>>
    /\ surface.paper = "forEachThrows"
    /\ ~WholeSurfaceAccepted(surface)
    /\ Contributors(surface) # {}
    /\ surface.width # 0

\* C9: whatever the surface does, a throwing whole-surface query, per-shape
\* query or enumeration included, _calculateBounds does not raise and returns
\* a rectangle of width > 0 and height > 0.
C9_NeverRaisesPositiveExtent ==
    bounds # <<>> =>
        /\ ~bounds[1].raised
        /\ bounds[1].width > 0
        /\ bounds[1].height > 0

C9_Witness ==
    /\ bounds # <<>>
    /\ surface.canvasBBox.kind = "throws"
    /\ surface.paper = "forEachThrows"
    /\ \E k \in 1..Len(surface.shapes) : surface.shapes[k].kind = "throws"

\* C10: the viewport exportAsSVG writes for Bounds B is x = B.x - 20,
\* y = B.y - 20 - 50, width = B.width + 40 + 180 + 20, height = B.height + 40 + 50.
C10_SvgViewport ==
    (layout # <<>> /\ layout[1].format = "svg") =>
        LET B == bounds[1]
        IN layout[1].viewport =
             Rect(B.x - 20, B.y - 20 - 50, B.width + 40 + 180 + 20, B.height + 40 + 50)

C10_Witness ==
    /\ layout # <<>>
    /\ layout[1].format = "svg"
    /\ InPerShapeTier(surface)
    /\ bounds[1].x < 0

\* ------------------------------------------------------------------------
\* C11..C20
\* ------------------------------------------------------------------------

\* the call has taken the named step
InLog(c, name) == \E i \in 1..Len(calls[c].log) : calls[c].log[i] = name

\* C11: a PDF export saves only after the title was written, the image load
\* completed and the raster was embedded, in that order; a PDF export that
\* ended without the save step triggered no download and showed a message.
C11_PdfSavedLastOrReported ==
    \A c \in Calls :
        calls[c].format = "pdf" =>
            /\ (calls[c].downloads # <<>> \/ InLog(c, "saved")) =>
                   /\ calls[c].log = <<"page", "title", "imageLoaded", "embedded", "saved">>
                   /\ calls[c].downloads = <<calls[c].fileName>>
            /\ (calls[c].pc = "done" /\ ~InLog(c, "saved")) =>
                   /\ calls[c].downloads = <<>>
                   /\ calls[c].messages # <<>>

C11_Witness ==
    /\ calls["first"].format = "pdf"
    /\ calls["first"].downloads # <<>>
    /\ calls["second"].format = "pdf"
    /\ calls["second"].pc = "done"
    /\ InLog("second", "loadFailed")

\* C12: with the PDF engine undefined, exportAsPDF shows its message and
\* returns: no summary was extracted, no bounds computed, no document
\* created, no rasterization started and no download triggered.
C12_MissingEngineDoesNoWork ==
    \A c \in Calls :
        (calls[c].format = "pdf" /\ ~pdfLoaded) =>
            /\ calls[c].pc = "done"
            /\ calls[c].messages = <<MsgPdfMissing>>
            /\ calls[c].title = NoValue
            /\ calls[c].geometry = <<>>
            /\ calls[c].log = <<>>
            /\ calls[c].downloads = <<>>

C12_Witness ==
    /\ ~pdfLoaded
    /\ graph # EmptyGraph
    /\ surface = ShapesSurface
    /\ calls["first"].format = "pdf"
    /\ calls["first"].messages = <<MsgPdfMissing>>

\* C13: when the traversal of the persons fails (no editor or graph, a
\* person whose properties or term lists cannot be read) extractPhenotypeInfo
\* returns the zeroed Summary: no phenotypes, the four counts 0, affectedCount
\* 0, totalIndividuals 0, title "Pedigree Chart"; nothing counted before the
\* failure is returned.
C13_ZeroedSummaryOnFailure ==
    (summary # <<>> /\ TraversalFails(graph)) =>
        summary[1] = [phenotypes |-> <<>>,
                      carrierStatusCounts |->
                          [normal |-> 0, carrier |-> 0, affected |-> 0, presymptomatic |-> 0],
                      affectedCount |-> 0,
                      totalIndividuals |-> 0,
                      title |-> "Pedigree Chart"]

C13_Witness ==
    /\ summary # <<>>
    /\ Len(graph) = 2
    /\ graph[1].kind = "person"
    /\ graph[1].carrierStatus = "affected"
    /\ graph[1].disorders # <<>>
    /\ graph[2].kind = "broken"

\* both calls are raster exports, the second was made while the first had a
\* callback pending, and nothing of either will run any more
OverlappedRasterExportsFinished ==
    /\ \A c \in Calls : calls[c].format \in RasterFormats /\ ExportFinished(c)
    /\ \E c \in Calls : calls[c].overlapped

\* a container that leaves the document in this step was removed by a task of
\* the call that created it, and that task touched no other call
RemovesOnlyOwnContainer ==
    \A d \in Calls :
        (d \in attached /\ d \notin attached') =>
            /\ calls'[d] # calls[d]
            /\ \A e \in Calls \ {d} : calls'[e] = calls[e]

\* what a call has downloaded is one file at most, under its own file name
DownloadsOwnFile ==
    \A c \in Calls :
        /\ Len(calls[c].downloads) <= 1
        /\ \A i \in 1..Len(calls[c].downloads) : calls[c].downloads[i] = calls[c].fileName

\* C14: two overlapping raster exports do not interfere: a container is
\* removed only by the export that created it, each download carries the file
\* name of its own export, and once both exports have finished no offscreen
\* container is attached to the document.
C14_OverlappingExportsIndependent ==
    [][/\ RemovesOnlyOwnContainer
       /\ DownloadsOwnFile'
       /\ OverlappedRasterExportsFinished' => attached' = {}]_vars

\* C15: in the per-shape tier the returned rectangle is the minimal one
\* around the contributing shapes (those whose query succeeds with width > 0
\* and height > 0): x and y are the least left and top edges, x + width and
\* y + height the greatest right and bottom edges; the boxes (0,0,10,10) and
\* (20,20,5,5) give (0,0,25,25).
C15_PerShapeMinimalRect ==
    (bounds # <<>> /\ InPerShapeTier(surface)) =>
        LET B == bounds[1]
            sh == surface.shapes
            C == Contributors(surface)
        IN /\ \A k \in C : /\ B.x <= sh[k].x
                            /\ B.y <= sh[k].y
                            /\ sh[k].x + sh[k].width <= B.x + B.width
                            /\ sh[k].y + sh[k].height <= B.y + B.height
           /\ \E k \in C : B.x = sh[k].x
           /\ \E k \in C : B.y = sh[k].y
           /\ \E k \in C : B.x + B.width = sh[k].x + sh[k].width
           /\ \E k \in C : B.y + B.height = sh[k].y + sh[k].height
           /\ sh = <<BBox(0, 0, 10, 10), BBox(20, 20, 5, 5)>> => RectOf(B) = Rect(0, 0, 25, 25)

\* the two boxes of the example are accumulated
C15_Witness ==
    /\ bounds # <<>>
    /\ surface = TwoShapesSurface
    /\ RectOf(bounds[1]) = Rect(0, 0, 25, 25)

\* a shape without extent lies left of every contributing shape
C15_WitnessSkippedShape ==
    /\ bounds # <<>>
    /\ InPerShapeTier(surface)
    /\ \E k \in 1..Len(surface.shapes) :
          /\ surface.shapes[k].kind = "box"
          /\ k \notin Contributors(surface)
          /\ surface.shapes[k].x < bounds[1].x

\* C16: for every Bounds B the legend panel of exportAsSVG lies strictly
\* right of B, its left edge at B.x + B.width + 20 or further, and the title
\* bar lies strictly above B; neither shares an area with B.
C16_LegendAndTitleClearOfContent ==
    (layout # <<>> /\ layout[1].format = "svg") =>
        LET B == RectOf(bounds[1])
            legend == layout[1].legendRect
            bar == layout[1].titleRect
        IN /\ legend.x >= B.x + B.width + 20
           /\ legend.x > B.x + B.width
           /\ bar.y + bar.height < B.y
           /\ ~Overlap(legend, B)
           /\ ~Overlap(bar, B)

C16_Witness ==
    /\ layout # <<>>
    /\ layout[1].format = "svg"
    /\ WholeSurfaceAccepted(surface)
    /\ layout[1].legendRect.x = bounds[1].x + bounds[1].width + 20
    /\ layout[1].titleRect.y + layout[1].titleRect.height = bounds[1].y - 30

\* C17: the canvas of the raster fallback is 2*(B.width+40) wide and
\* 2*(B.height+40) high, is filled white beforehand exactly when the format
\* is JPG, and carries the drawing alone, without title and legend.
C17_FallbackCanvas ==
    (layout # <<>> /\ layout[1].format \in RasterFormats) =>
        LET B == bounds[1]
        IN /\ layout[1].canvasWidth = 2 * (B.width + 40)
           /\ layout[1].canvasHeight = 2 * (B.height + 40)
           /\ layout[1].prefilledWhite <=> (layout[1].format = "jpg")
           /\ layout[1].drawn = {"drawing"}

C17_Witness ==
    /\ layout # <<>>
    /\ layout[1].format = "png"
    /\ ~layout[1].prefilledWhite
    /\ InPerShapeTier(surface)
    /\ layout[1].canvasWidth = 86

\* C18: the PDF page for Bounds B is 0.75*(B.width + 2*40) wide and
\* 0.75*(B.height + 2*40 + 60) high (both held in quarters of a point), and
\* is landscape exactly when that width is strictly greater than that height.
C18_PdfPage ==
    (layout # <<>> /\ layout[1].format = "pdf") =>
        LET B == bounds[1]
        IN /\ layout[1].width = 3 * (B.width + 2 * 40)
           /\ layout[1].height = 3 * (B.height + 2 * 40 + 60)
           /\ layout[1].orientation \in {"l", "p"}
           /\ layout[1].orientation = "l" <=> layout[1].width > layout[1].height

\* a page exactly as high as it is wide, which is portrait
C18_Witness ==
    /\ layout # <<>>
    /\ layout[1].format = "pdf"
    /\ layout[1].width = layout[1].height
    /\ layout[1].orientation = "p"

\* a landscape page
C18_WitnessLandscape ==
    /\ layout # <<>>
    /\ layout[1].format = "pdf"
    /\ layout[1].orientation = "l"

\* the messages that name the SVG format as the way out
MessagesSuggestingSvg == {MsgTrySvg}

SuggestsSvg(c) ==
    \E i \in 1..Len(calls[c].messages) : calls[c].messages[i] \in MessagesSuggestingSvg

\* C19 as stated: in a raster export, when the encoding yields no blob (shim
\* path or fallback path) or the vector-to-image load fails, the user is shown
\* a message that suggests the SVG format, and no download is triggered.
C19_FailureSuggestsSvg ==
    \A c \in Calls :
        (/\ calls[c].format \in RasterFormats
         /\ InLog(c, "noBlob") \/ InLog(c, "loadFailed")) =>
            /\ SuggestsSvg(c)
            /\ calls[c].downloads = <<>>

\* C19 amended: in a raster export, a missing blob (shim path or fallback
\* path) is reported with "Failed to create image blob", which does not
\* suggest SVG; a failed image load or a raising draw in the fallback path is
\* reported with the message that suggests SVG; in both cases nothing is
\* downloaded.  A failed image load inside the capture shim is not reported:
\* the placeholder canvas is exported when its encoding yields a blob.
C19_FailureMessages ==
    \A c \in Calls :
        calls[c].format \in RasterFormats =>
            /\ InLog(c, "noBlob") =>
                   /\ calls[c].messages = <<MsgBlob>>
                   /\ ~SuggestsSvg(c)
                   /\ calls[c].downloads = <<>>
            /\ (InLog(c, "loadFailed") \/ InLog(c, "drawFailed")) =>
                   /\ calls[c].messages = <<MsgTrySvg>>
                   /\ SuggestsSvg(c)
                   /\ calls[c].downloads = <<>>
            /\ (/\ InLog(c, "placeholder")
                /\ calls[c].pc = "done"
                /\ calls[c].shimPath = "resolved"
                /\ ~InLog(c, "noBlob")) =>
                   /\ calls[c].messages = <<>>
                   /\ calls[c].downloads = <<calls[c].fileName>>

C19_Witness ==
    /\ calls["first"].format \in RasterFormats
    /\ calls["first"].shimPath = "resolved"
    /\ InLog("first", "noBlob")
    /\ calls["second"].format \in RasterFormats
    /\ InLog("second", "loadFailed")

\* the capture shim was called and the one image event it waits for has been
\* handled: nothing is left that could settle its promise
ShimEventsHandled(c) ==
    /\ calls[c].shimCalls > 0
    /\ calls[c].pc # "shimImage"

\* the promise was resolved or rejected ("handlerThrew": resolved, and the
\* reaction to it raised)
ShimSettled(c) == calls[c].shimPath \in {"resolved", "rejected", "handlerThrew"}

\* C20: the promise returned by html2canvas settles in every execution,
\* whatever the outcome of measuring the element and of loading the image, an
\* exception while drawing the loaded image included: once the shim has
\* nothing left to run, the promise is resolved or rejected, never pending.
C20_ShimPromiseSettles ==
    \A c \in Calls : ShimEventsHandled(c) => ShimSettled(c)

\* ------------------------------------------------------------------------
\* C21..C23
\* ------------------------------------------------------------------------

\* C21: in one PDF export the embedded image is sized from the Bounds the
\* page was sized from, also when the drawing changed between the call and
\* the image's load.
C21_PageAndImageFromSameBounds ==
    \A c \in Calls :
        (calls[c].format = "pdf" /\ InLog(c, "embedded")) =>
            LET g == calls[c].geometry[1]
            IN /\ g.imageBBox = g.bbox
               /\ g.imageWidth = 3 * (g.bbox.width + 80)
               /\ g.imageHeight = 3 * (g.bbox.height + 80)

\* C22: for every Bounds B the rectangle at which the raster is embedded in
\* the PDF (x = 0, y = titleHeight, 0.75*(B.width+80) wide, 0.75*(B.height+80)
\* high) lies inside the page (0.75*(B.width+80) by 0.75*(B.height+80+60));
\* the image does not reach past the bottom of the page.  Lengths are in
\* quarters of a point.
C22_ImageInsidePage ==
    (layout # <<>> /\ layout[1].format = "pdf") =>
        LET g == layout[1]
        IN /\ g.imageBBox = RectOf(bounds[1])
           /\ g.imageX >= 0
           /\ g.imageY >= 0
           /\ g.imageX + g.imageWidth <= g.width
           /\ g.imageY + g.imageHeight <= g.height

\* C23: for every Bounds B of positive width and height the legend panel of
\* exportAsSVG (its background of 170 by 140 and its four icon rows) and the
\* title bar lie inside the viewport written to the output, however small
\* B.height is.
C23_LegendInsideViewport ==
    (/\ layout # <<>>
     /\ layout[1].format = "svg"
     /\ bounds[1].width > 0
     /\ bounds[1].height > 0) =>
        LET g == layout[1]
        IN /\ g.legendRect.width = 170
           /\ g.legendRect.height = 140
           /\ Inside(g.legendRect, g.viewport)
           /\ \A i \in 1..4 : Inside(g.legendIcons[i], g.viewport)
           /\ Inside(g.titleRect, g.viewport)

====
